---- MODULE Spec2Model ----
(***************************************************************************)
(* libqb lib/tsafe.c: the interposition layer that bans functions known    *)
(* not to be thread safe once a second thread can exist.                   *)
(*                                                                         *)
(* The model is the Linux build (QB_LINUX defined, QB_BSD not defined,     *)
(* HAVE_CRYPT defined, assertions compiled in).  The state is one process: *)
(* the file's static variables, the live environment of the C library and  *)
(* the threads running in it.  fork() makes a copy of the process that     *)
(* shares nothing with the original, so the model follows one of the two:  *)
(* after the duplication it is either still the parent or it is the child. *)
(* Every thread executes one call at a time, one shared-memory access per  *)
(* step.  The library that defines crypt may or may not be among those the *)
(* loader searches after this one, so the resolution of crypt can fail.    *)
(*                                                                         *)
(* C strings are sequences of one-character strings, so that strchr,       *)
(* strlen and strncmp are computed and not assumed.                        *)
(***************************************************************************)
EXTENDS Integers, Sequences, FiniteSets, TLC

\* ------------------------------------------------------------------ bounds
NumThreads == 2
MaxOps == 3
MaxEntries == 3

Threads == 1..NumThreads
MainThread == CHOOSE t \in Threads : \A u \in Threads : t <= u
NoThread == 0
\* the holder of a lock that was taken by a thread the fork did not copy
Gone == NumThreads + 1

\* ------------------------------------------------------------ C data values
NULL == <<"NULL">>
StrV(s) == <<"str", s>>
IntV(n) == <<"int", n>>
Void == <<"void">>

Names == {<<"A">>, <<"A", "B">>}
Values == {<<"x">>, <<"y">>}
Entry(n, v) == n \o <<"=">> \o v
InitialEnvirons ==
    { <<Entry(<<"A", "B">>, <<"y">>)>>,
      <<Entry(<<"A", "B">>, <<"y">>), Entry(<<"A">>, <<"x">>)>> }

\* ------------------------------------------------------------- the catalog
AbortFns == {"setenv", "unsetenv", "putenv", "crypt", "setgrent", "strtok"}
Symbols == AbortFns \cup {"getenv", "pthread_create"}

QB_BSD == FALSE

ArgsOf(fn) ==
    CASE fn = "setenv" ->
           { <<<<"A">>, <<"y">>, <<"1">>>> }
      [] fn = "unsetenv" -> { <<<<"A">>>> }
      [] fn = "putenv" -> { <<Entry(<<"A", "B">>, <<"x">>)>> }
      [] fn = "crypt" -> { <<<<"k">>, <<"s">>>> }
      [] fn = "strtok" -> { <<<<"a", ",", "b">>, <<",">>>> }
      [] fn = "getenv" -> { <<n>> : n \in Names }
      [] OTHER -> { <<>> }

\* ------------------------------------------------------- C string helpers
\* strchr(s, c): the position of the first c in s, 0 when there is none
strchr(s, c) ==
    IF \E i \in 1..Len(s) : s[i] = c
       THEN CHOOSE i \in 1..Len(s) : s[i] = c /\ \A j \in 1..(i - 1) : s[j] # c
       ELSE 0

strlen(s) == Len(s)

\* strncmp(a, b, n) == 0, for n within both strings
strncmp_eq(a, b, n) ==
    /\ n <= Len(a)
    /\ n <= Len(b)
    /\ \A i \in 1..n : a[i] = b[i]

\* the tail of string s after position i
After(s, i) == SubSeq(s, i + 1, Len(s))

\* a scan that compares the first strlen(name) characters only
RECURSIVE coro_scan_prefix(_, _, _)
coro_scan_prefix(env, name, entry) ==
    IF entry > Len(env)
       THEN NULL
       ELSE LET eq == strchr(env[entry], "=")
            IN  IF strncmp_eq(name, env[entry], strlen(name))
                   THEN StrV(After(env[entry], eq))
                   ELSE coro_scan_prefix(env, name, entry + 1)

\* the scan of getenv over the snapshot: the loop and the found branch
RECURSIVE coro_scan(_, _, _)
coro_scan(env, name, entry) ==
    IF entry > Len(env)
       THEN NULL
       ELSE LET eq == strchr(env[entry], "=")
                name_len == eq - 1
            IN  IF name_len = strlen(name) /\ strncmp_eq(name, env[entry], name_len)
                   THEN StrV(After(env[entry], eq))
                   ELSE coro_scan(env, name, entry + 1)

coro_getenv(env, name) == coro_scan(env, name, 1)

\* ----------------------------------------- the C library behind the layer
NameOf(e) == SubSeq(e, 1, strchr(e, "=") - 1)
ValueOf(e) == After(e, strchr(e, "="))
Has(env, n) == \E i \in 1..Len(env) : NameOf(env[i]) = n
Pos(env, n) == CHOOSE i \in 1..Len(env) :
                  NameOf(env[i]) = n /\ \A j \in 1..(i - 1) : NameOf(env[j]) # n

RECURSIVE Without(_, _)
Without(env, n) ==
    IF env = <<>> THEN <<>>
    ELSE IF NameOf(Head(env)) = n THEN Without(Tail(env), n)
         ELSE <<Head(env)>> \o Without(Tail(env), n)

libc_getenv(env, n) ==
    IF Has(env, n) THEN StrV(ValueOf(env[Pos(env, n)])) ELSE NULL

libc_setenv(env, n, v, overwrite) ==
    IF Has(env, n)
       THEN IF overwrite = <<"0">> THEN env
            ELSE [env EXCEPT ![Pos(env, n)] = Entry(n, v)]
       ELSE Append(env, Entry(n, v))

libc_putenv(env, e) == libc_setenv(env, NameOf(e), ValueOf(e), <<"1">>)

libc_unsetenv(env, n) == Without(env, n)

\* the environment after the real function sym ran on arguments a
libc_environ(sym, a, env) ==
    CASE sym = "setenv" /\ Len(a) = 3 -> libc_setenv(env, a[1], a[2], a[3])
      [] sym = "putenv" /\ Len(a) = 1 -> libc_putenv(env, a[1])
      [] sym = "unsetenv" /\ Len(a) = 1 -> libc_unsetenv(env, a[1])
      [] OTHER -> env

\* the threads after the real pthread_create ran
libc_threads(sym, live) ==
    IF sym = "pthread_create" /\ live # Threads
       THEN live \cup {CHOOSE n \in Threads \ live : \A m \in Threads \ live : n <= m}
       ELSE live

\* what the real function sym returns on arguments a
libc_result(sym, a, env, live) ==
    CASE sym \in {"setenv", "putenv", "unsetenv"} -> IntV("0")
      [] sym = "getenv" /\ Len(a) = 1 -> libc_getenv(env, a[1])
      [] sym = "pthread_create" -> IF live # Threads THEN IntV("0") ELSE IntV("EAGAIN")
      [] sym = "setgrent" -> Void
      [] OTHER -> <<"res", sym, a>>

\* ---------------------------------------------------------- _get_real_func_
\* what the libraries loaded after this one can define: everything, or, when
\* the program was linked without libcrypt, everything but crypt
Libraries == {Symbols, Symbols \ {"crypt"}}

\* -------------------------------------------------------------------- state
VARIABLES
    status,               \* "running", "aborted" (assert) or "crashed" (SIGSEGV)
    alive,                \* the threads that exist in the process
    tsafe_disabled,       \* static int32_t tsafe_disabled
    tsafe_inited,         \* static int32_t tsafe_inited
    coro_environ,         \* the snapshot (NULL before qb_tsafe_init)
    tsafe_enabled_mutex,  \* the thread holding the lock, or NoThread
    atfork,               \* the fork handlers are registered
    real,                 \* per symbol: the static real_<symbol> pointer
    environ,              \* the C library's live environment
    pc,                   \* per thread: where the thread is
    call,                 \* per thread: the call in progress
    seen,                 \* per thread: what the gate test of the call read
    inv,                  \* per thread: real functions invoked by the call
    nres,                 \* per thread: resolver calls made by the call
    ret,                  \* per thread: the value the call returns
    captured,             \* the envp handed to qb_tsafe_init
    loaded,               \* the symbols the libraries next in search order define
    last_toggle,          \* which of qb_tsafe_on/off took the lock last: "on", "off"
    nops                  \* calls started so far, qb_tsafe_init apart

procVars == <<status, alive, tsafe_disabled, tsafe_inited, coro_environ,
              tsafe_enabled_mutex, atfork, real, environ, captured, loaded,
              last_toggle>>
threadVars == <<pc, call, seen, inv, nres, ret>>
vars == <<procVars, threadVars, nops>>

\* dlsym(RTLD_DEFAULT, func_name): the first func_name in search order, which
\* is the wrapper of this layer
_get_real_func_default(func_name) == <<"tsafe", func_name>>

\* dlsym(RTLD_NEXT, func_name): the address of the next func_name, NULL when
\* no library loaded after this one defines it
_get_real_func_(func_name) ==
    IF func_name \in loaded THEN <<"libc", func_name>> ELSE NULL

NoCall == [fn |-> "none", args |-> <<>>]
NoRet == <<"none">>
NotSeen == "none"
NoToggle == "none"

Running == status = "running"
At(t, l) == Running /\ t \in alive /\ pc[t] = l
Idle(t) == At(t, "idle")

\* checking is in effect: initialized and not disabled
Enabled == tsafe_inited = 1 /\ tsafe_disabled = 0

Init ==
    /\ status = "running"
    /\ alive = {MainThread}
    /\ tsafe_disabled = 1
    /\ tsafe_inited = 0
    /\ coro_environ = NULL
    /\ tsafe_enabled_mutex = NoThread
    /\ atfork = FALSE
    /\ real = [s \in Symbols |-> NULL]
    /\ environ \in InitialEnvirons
    /\ captured = NULL
    /\ loaded \in Libraries
    /\ last_toggle = NoToggle
    /\ pc = [t \in Threads |-> "idle"]
    /\ call = [t \in Threads |-> NoCall]
    /\ seen = [t \in Threads |-> NotSeen]
    /\ inv = [t \in Threads |-> <<>>]
    /\ nres = [t \in Threads |-> 0]
    /\ ret = [t \in Threads |-> NoRet]
    /\ nops = 0

\* a thread starts the call fn(args) and moves to location l
Begin(t, fn, args, l) ==
    /\ Idle(t)
    /\ nops < MaxOps
    /\ nops' = nops + 1
    /\ call' = [call EXCEPT ![t] = [fn |-> fn, args |-> args]]
    /\ pc' = [pc EXCEPT ![t] = l]

Goto(t, l) == pc' = [pc EXCEPT ![t] = l]

\* ----------------------------------------------------------- qb_tsafe_init
\* called once, with the environment vector of the process
qb_tsafe_init(t) ==
    /\ tsafe_inited = 0
    /\ Idle(t)
    /\ coro_environ' = environ
    /\ captured' = environ
    /\ atfork' = TRUE
    /\ tsafe_disabled' = 1
    /\ tsafe_inited' = 1
    /\ last_toggle' = NoToggle
    /\ UNCHANGED <<status, alive, tsafe_enabled_mutex, real, environ, loaded,
                   threadVars, nops>>

\* ------------------------------------------------- tsafe_lock / tsafe_unlock
\* a lock that does not wait for its holder
tsafe_lock_nowait(t) ==
    tsafe_enabled_mutex' = t

tsafe_lock(t) ==
    /\ tsafe_enabled_mutex = NoThread
    /\ tsafe_enabled_mutex' = t

\* an unlock that releases nothing
tsafe_unlock_noop(t) ==
    UNCHANGED tsafe_enabled_mutex

tsafe_unlock(t) ==
    tsafe_enabled_mutex' = NoThread

\* --------------------------------------------- qb_tsafe_off / qb_tsafe_on
\* what a write of v into tsafe_disabled does to the flag
Overwrote(v) == IF tsafe_disabled = v THEN "same" ELSE "changed"

qb_tsafe_off_call(t) ==
    /\ Begin(t, "qb_tsafe_off", <<>>, "off_lock")
    /\ UNCHANGED <<procVars, seen, inv, nres, ret>>

qb_tsafe_off_lock(t) ==
    /\ At(t, "off_lock")
    /\ tsafe_lock(t)
    /\ last_toggle' = "off"
    /\ Goto(t, "off_write")
    /\ UNCHANGED <<status, alive, tsafe_disabled, tsafe_inited, coro_environ,
                   atfork, real, environ, captured, loaded, call, seen, inv,
                   nres, ret, nops>>

qb_tsafe_off_write(t) ==
    /\ At(t, "off_write")
    /\ tsafe_disabled' = 1
    /\ seen' = [seen EXCEPT ![t] = Overwrote(1)]
    /\ Goto(t, "off_unlock")
    /\ UNCHANGED <<status, alive, tsafe_inited, coro_environ, tsafe_enabled_mutex,
                   atfork, real, environ, captured, loaded, last_toggle, call, inv, nres,
                   ret, nops>>

qb_tsafe_off_unlock(t) ==
    /\ At(t, "off_unlock")
    /\ tsafe_unlock(t)
    /\ Goto(t, "ret")
    /\ ret' = [ret EXCEPT ![t] = Void]
    /\ UNCHANGED <<status, alive, tsafe_disabled, tsafe_inited, coro_environ,
                   atfork, real, environ, captured, loaded, last_toggle, call, seen, inv,
                   nres, nops>>

qb_tsafe_off(t) ==
    \/ qb_tsafe_off_call(t)
    \/ qb_tsafe_off_lock(t)
    \/ qb_tsafe_off_write(t)
    \/ qb_tsafe_off_unlock(t)

qb_tsafe_on_call(t) ==
    /\ Begin(t, "qb_tsafe_on", <<>>, "on_lock")
    /\ UNCHANGED <<procVars, seen, inv, nres, ret>>

qb_tsafe_on_lock(t) ==
    /\ At(t, "on_lock")
    /\ tsafe_lock(t)
    /\ last_toggle' = "on"
    /\ Goto(t, "on_write")
    /\ UNCHANGED <<status, alive, tsafe_disabled, tsafe_inited, coro_environ,
                   atfork, real, environ, captured, loaded, call, seen, inv,
                   nres, ret, nops>>

\* a write that flips the flag instead of clearing it
qb_tsafe_on_write_flip(t) ==
    /\ At(t, "on_write")
    /\ tsafe_disabled' = 1 - tsafe_disabled
    /\ seen' = [seen EXCEPT ![t] = IF call[t].fn = "pthread_create" THEN @ ELSE Overwrote(0)]
    /\ Goto(t, "on_unlock")
    /\ UNCHANGED <<status, alive, tsafe_inited, coro_environ, tsafe_enabled_mutex,
                   atfork, real, environ, captured, loaded, last_toggle, call, inv, nres,
                   ret, nops>>

qb_tsafe_on_write(t) ==
    /\ At(t, "on_write")
    /\ tsafe_disabled' = 0
    /\ seen' = [seen EXCEPT ![t] = IF call[t].fn = "pthread_create" THEN @ ELSE Overwrote(0)]
    /\ Goto(t, "on_unlock")
    /\ UNCHANGED <<status, alive, tsafe_inited, coro_environ, tsafe_enabled_mutex,
                   atfork, real, environ, captured, loaded, last_toggle, call, inv, nres,
                   ret, nops>>

\* a return that leaves the lock taken
qb_tsafe_on_unlock_missing(t) ==
    /\ At(t, "on_unlock")
    /\ IF call[t].fn = "pthread_create"
          THEN Goto(t, "test") /\ UNCHANGED ret
          ELSE Goto(t, "ret") /\ ret' = [ret EXCEPT ![t] = Void]
    /\ UNCHANGED <<procVars, call, seen, inv, nres, nops>>

\* qb_tsafe_on returns to its caller: the application, or pthread_create
qb_tsafe_on_unlock(t) ==
    /\ At(t, "on_unlock")
    /\ tsafe_unlock(t)
    /\ IF call[t].fn = "pthread_create"
          THEN Goto(t, "test") /\ UNCHANGED ret
          ELSE Goto(t, "ret") /\ ret' = [ret EXCEPT ![t] = Void]
    /\ UNCHANGED <<status, alive, tsafe_disabled, tsafe_inited, coro_environ,
                   atfork, real, environ, captured, loaded, last_toggle, call, seen, inv,
                   nres, nops>>

qb_tsafe_on(t) ==
    \/ qb_tsafe_on_call(t)
    \/ qb_tsafe_on_lock(t)
    \/ qb_tsafe_on_write(t)
    \/ qb_tsafe_on_unlock(t)

\* ------------------------------------------------- the real_<symbol> cache
\* the argument list a wrapper hands to its real function
Forwarded(fn, args) == IF fn = "crypt" THEN <<args[2]>> ELSE args

\* the setgrent of the builds with QB_BSD on every build
AfterForward_returns(fn) == "return"

\* the statement after the forwarded call: return its result, or, in the
\* setgrent of the builds without QB_BSD, fall out of the if into assert(0)
AfterForward(fn) == IF fn = "setgrent" /\ ~QB_BSD THEN "assert" ELSE "return"

\* return real_f(...): the call through pointer target
Forward(t, target) ==
    /\ LET sym == target[2]
           a == Forwarded(call[t].fn, call[t].args)
       IN  /\ inv' = [inv EXCEPT ![t] = Append(@, <<sym, a>>)]
           /\ environ' = libc_environ(sym, a, environ)
           /\ alive' = libc_threads(sym, alive)
           /\ ret' = [ret EXCEPT ![t] = libc_result(sym, a, environ, alive)]
    /\ IF AfterForward(call[t].fn) = "assert"
          THEN status' = "aborted" /\ Goto(t, "aborted")
          ELSE UNCHANGED status /\ Goto(t, "ret")

\* a wrapper that resolves on every call, the pointer set or not
real_cached_resolves(t) ==
    /\ At(t, "test")
    /\ real[call[t].fn] # NULL
    /\ nres' = [nres EXCEPT ![t] = @ + 1]
    /\ Forward(t, _get_real_func_(call[t].fn))
    /\ UNCHANGED <<tsafe_disabled, tsafe_inited, coro_environ, tsafe_enabled_mutex,
                   atfork, real, captured, loaded, last_toggle, call, seen, nops>>

\* if (real_f == NULL) finds the pointer set: return real_f(...)
real_cached(t) ==
    /\ At(t, "test")
    /\ real[call[t].fn] # NULL
    /\ Forward(t, real[call[t].fn])
    /\ UNCHANGED <<tsafe_disabled, tsafe_inited, coro_environ, tsafe_enabled_mutex,
                   atfork, real, captured, loaded, last_toggle, call, seen, nres, nops>>

\* a cache test that tells a failed resolution from none: the call of a
\* thread that finds another one about to call through NULL skips the resolver
real_null_remembers(t) ==
    /\ At(t, "test")
    /\ real[call[t].fn] = NULL
    /\ IF \E u \in alive : pc[u] = "call" /\ call[u].fn = call[t].fn
          THEN Goto(t, "call")
          ELSE Goto(t, "store")
    /\ UNCHANGED <<procVars, call, seen, inv, nres, ret, nops>>

\* if (real_f == NULL) finds the pointer NULL
real_null(t) ==
    /\ At(t, "test")
    /\ real[call[t].fn] = NULL
    /\ Goto(t, "store")
    /\ UNCHANGED <<procVars, call, seen, inv, nres, ret, nops>>

\* the call through a NULL pointer: the process dies of SIGSEGV
Fault(t) ==
    /\ status' = "crashed"
    /\ Goto(t, "crashed")
    /\ UNCHANGED <<alive, environ, inv, ret>>

\* real_f = _get_real_func_("f"); return real_f(...), which reads the
\* pointer again: it holds the address just stored, unless that was NULL (any
\* other store of the process also stores what dlsym answers for "f")
real_store(t) ==
    /\ At(t, "store")
    /\ real' = [real EXCEPT ![call[t].fn] = _get_real_func_(call[t].fn)]
    /\ nres' = [nres EXCEPT ![t] = @ + 1]
    /\ IF _get_real_func_(call[t].fn) = NULL
          THEN Goto(t, "call") /\ UNCHANGED <<status, alive, environ, inv, ret>>
          ELSE Forward(t, _get_real_func_(call[t].fn))
    /\ UNCHANGED <<tsafe_disabled, tsafe_inited, coro_environ, tsafe_enabled_mutex,
                   atfork, captured, loaded, last_toggle, call, seen, nops>>

\* return real_f(...) with real_f still NULL after the resolution
real_call(t) ==
    /\ At(t, "call")
    /\ real[call[t].fn] = NULL
    /\ Fault(t)
    /\ UNCHANGED <<tsafe_disabled, tsafe_inited, coro_environ, tsafe_enabled_mutex,
                   atfork, real, captured, loaded, last_toggle, call, seen, nres,
                   nops>>

\* the call returns to the application
Return(t) ==
    /\ At(t, "ret")
    /\ Goto(t, "idle")
    /\ call' = [call EXCEPT ![t] = NoCall]
    /\ seen' = [seen EXCEPT ![t] = NotSeen]
    /\ inv' = [inv EXCEPT ![t] = <<>>]
    /\ nres' = [nres EXCEPT ![t] = 0]
    /\ ret' = [ret EXCEPT ![t] = NoRet]
    /\ UNCHANGED <<procVars, nops>>

\* ------------------------------------------------------------ the wrappers
\* the gate test every wrapper opens with
Forwarding == tsafe_inited = 0 \/ tsafe_disabled = 1

\* a wrapper whose assert(0) comes after the forwarded call
banned_late_assert(t, fn, args) ==
    /\ Begin(t, fn, args, "test")
    /\ seen' = [seen EXCEPT ![t] = IF Forwarding THEN "forward" ELSE "refuse"]
    /\ UNCHANGED <<procVars, inv, nres, ret>>

\* setenv, unsetenv, putenv, crypt, setgrent, strtok, ...: the banned
\* functions, up to the forwarded call or the assert(0)
banned(t, fn, args) ==
    /\ Begin(t, fn, args, IF Forwarding THEN "test" ELSE "aborted")
    /\ seen' = [seen EXCEPT ![t] = IF Forwarding THEN "forward" ELSE "refuse"]
    /\ status' = IF Forwarding THEN status ELSE "aborted"
    /\ UNCHANGED <<alive, tsafe_disabled, tsafe_inited, coro_environ,
                   tsafe_enabled_mutex, atfork, real, environ, captured, loaded,
                   last_toggle, inv, nres, ret>>

\* a getenv without the gate test: the real getenv in every gate state
getenv_ungated(t, args) ==
    /\ Begin(t, "getenv", args, "test")
    /\ seen' = [seen EXCEPT ![t] = "forward"]
    /\ UNCHANGED <<procVars, inv, nres, ret>>

getenv(t, args) ==
    /\ Begin(t, "getenv", args, IF Forwarding THEN "test" ELSE "scan")
    /\ seen' = [seen EXCEPT ![t] = IF Forwarding THEN "forward" ELSE "snapshot"]
    /\ UNCHANGED <<procVars, inv, nres, ret>>

\* a scan of the live environment instead of the snapshot
getenv_scan_live(t) ==
    /\ At(t, "scan")
    /\ ret' = [ret EXCEPT ![t] = coro_getenv(environ, call[t].args[1])]
    /\ Goto(t, "ret")
    /\ UNCHANGED <<procVars, call, seen, inv, nres, nops>>

getenv_scan(t) ==
    /\ At(t, "scan")
    /\ ret' = [ret EXCEPT ![t] = coro_getenv(coro_environ, call[t].args[1])]
    /\ Goto(t, "ret")
    /\ UNCHANGED <<procVars, call, seen, inv, nres, nops>>

\* a catgets written after the pattern of the banned functions
catgets_banned(t) ==
    /\ Begin(t, "catgets", <<>>, IF Forwarding THEN "ret" ELSE "aborted")
    /\ ret' = [ret EXCEPT ![t] = IF Forwarding THEN NULL ELSE @]
    /\ status' = IF Forwarding THEN status ELSE "aborted"
    /\ UNCHANGED <<alive, tsafe_disabled, tsafe_inited, coro_environ,
                   tsafe_enabled_mutex, atfork, real, environ, captured, loaded,
                   last_toggle, seen, inv, nres>>

catgets(t) ==
    /\ Begin(t, "catgets", <<>>, "ret")
    /\ ret' = [ret EXCEPT ![t] = NULL]
    /\ UNCHANGED <<procVars, seen, inv, nres>>

\* pthread_create up to the cache test: the gate test and the call of
\* qb_tsafe_on, whose steps are qb_tsafe_on_lock .. qb_tsafe_on_unlock
\* the test of atfork_child in the place of the test of pthread_create
TurningOn_negated == tsafe_inited = 1 /\ tsafe_disabled = 0
TurningOn == tsafe_inited = 1 /\ tsafe_disabled = 1

pthread_create(t) ==
    /\ Begin(t, "pthread_create", <<>>, IF TurningOn THEN "on_lock" ELSE "test")
    /\ seen' = [seen EXCEPT ![t] = IF TurningOn THEN "turn_on" ELSE "leave"]
    /\ UNCHANGED <<procVars, inv, nres, ret>>

\* --------------------------------------------------------------- fork
\* fork() runs the prepare handler when qb_tsafe_init registered it
fork(t) ==
    /\ Begin(t, "fork", IF atfork THEN <<"handlers">> ELSE <<>>,
             IF atfork THEN "prepare" ELSE "dup")
    /\ UNCHANGED <<procVars, seen, inv, nres, ret>>

atfork_prepare(t) ==
    /\ At(t, "prepare")
    /\ tsafe_lock(t)
    /\ Goto(t, "dup")
    /\ UNCHANGED <<status, alive, tsafe_disabled, tsafe_inited, coro_environ,
                   atfork, real, environ, captured, loaded, last_toggle, call, seen, inv,
                   nres, ret, nops>>

GateAtFork == IF Enabled THEN "enabled" ELSE "disabled"

\* the handlers run in the fork of thread t
Handlers(t) == call[t].args = <<"handlers">>

\* the duplication, seen from the parent: nothing of the process changes
fork_parent(t) ==
    /\ At(t, "dup")
    /\ Goto(t, IF Handlers(t) THEN "parent" ELSE "ret")
    /\ seen' = [seen EXCEPT ![t] = GateAtFork]
    /\ ret' = [ret EXCEPT ![t] = <<"pid">>]
    /\ UNCHANGED <<procVars, call, inv, nres, nops>>

\* the duplication, seen from the child: a copy of the memory of the parent
\* in which only the calling thread exists
fork_child(t) ==
    /\ At(t, "dup")
    /\ alive' = {t}
    /\ pc' = [u \in Threads |->
                IF u # t THEN "idle" ELSE IF Handlers(t) THEN "child" ELSE "ret"]
    /\ call' = [u \in Threads |-> IF u = t THEN call[t] ELSE NoCall]
    /\ seen' = [u \in Threads |-> IF u = t THEN GateAtFork ELSE NotSeen]
    /\ inv' = [u \in Threads |-> <<>>]
    /\ nres' = [u \in Threads |-> 0]
    /\ ret' = [u \in Threads |-> IF u = t THEN IntV("0") ELSE NoRet]
    /\ tsafe_enabled_mutex' =
          IF tsafe_enabled_mutex \in {NoThread, t} THEN tsafe_enabled_mutex ELSE Gone
    /\ UNCHANGED <<status, tsafe_disabled, tsafe_inited, coro_environ,
                   atfork, real, environ, captured, loaded, last_toggle, nops>>

\* a parent handler that resets the flag as the child handler does
atfork_parent_resets(t) ==
    /\ At(t, "parent")
    /\ tsafe_disabled' = 1
    /\ tsafe_unlock(t)
    /\ Goto(t, "ret")
    /\ UNCHANGED <<status, alive, tsafe_inited, coro_environ,
                   atfork, real, environ, captured, loaded, last_toggle, call, seen, inv,
                   nres, ret, nops>>

atfork_parent(t) ==
    /\ At(t, "parent")
    /\ tsafe_unlock(t)
    /\ Goto(t, "ret")
    /\ UNCHANGED <<status, alive, tsafe_disabled, tsafe_inited, coro_environ,
                   atfork, real, environ, captured, loaded, last_toggle, call, seen, inv,
                   nres, ret, nops>>

\* a child handler that only unlocks, as the parent handler does
atfork_child_keeps(t) ==
    /\ At(t, "child")
    /\ tsafe_unlock(t)
    /\ Goto(t, "ret")
    /\ UNCHANGED <<status, alive, tsafe_disabled, tsafe_inited, coro_environ,
                   atfork, real, environ, captured, loaded, last_toggle, call, seen, inv,
                   nres, ret, nops>>

atfork_child(t) ==
    /\ At(t, "child")
    /\ IF tsafe_inited = 1 /\ tsafe_disabled = 0
          THEN tsafe_disabled' = 1 /\ last_toggle' = NoToggle
          ELSE UNCHANGED <<tsafe_disabled, last_toggle>>
    /\ tsafe_unlock(t)
    /\ Goto(t, "ret")
    /\ UNCHANGED <<status, alive, tsafe_inited, coro_environ,
                   atfork, real, environ, captured, loaded, call, seen, inv,
                   nres, ret, nops>>

\* ------------------------------------------------------- the specification
Next ==
    \E t \in Threads :
        \/ qb_tsafe_init(t)
        \/ qb_tsafe_off(t)
        \/ qb_tsafe_on(t)
        \/ pthread_create(t)
        \/ \E fn \in AbortFns : \E args \in ArgsOf(fn) : banned(t, fn, args)
        \/ \E args \in ArgsOf("getenv") : getenv(t, args)
        \/ getenv_scan(t)
        \/ catgets(t)
        \/ real_cached(t)
        \/ real_null(t)
        \/ real_store(t)
        \/ real_call(t)
        \/ Return(t)
        \/ fork(t)
        \/ atfork_prepare(t)
        \/ fork_parent(t)
        \/ fork_child(t)
        \/ atfork_parent(t)
        \/ atfork_child(t)

Spec == Init /\ [][Next]_vars

\* a thread inside a call is scheduled again: every step but the start of a
\* new call, which is up to the application
Continue(t) ==
    \/ qb_tsafe_off_lock(t)
    \/ qb_tsafe_off_write(t)
    \/ qb_tsafe_off_unlock(t)
    \/ qb_tsafe_on_lock(t)
    \/ qb_tsafe_on_write(t)
    \/ qb_tsafe_on_unlock(t)
    \/ getenv_scan(t)
    \/ real_cached(t)
    \/ real_null(t)
    \/ real_store(t)
    \/ real_call(t)
    \/ Return(t)
    \/ atfork_prepare(t)
    \/ fork_parent(t)
    \/ fork_child(t)
    \/ atfork_parent(t)
    \/ atfork_child(t)

\* the threads are preemptible OS threads: one that can run does run
FairSpec == Init /\ [][Next]_vars /\ \A t \in Threads : WF_vars(Continue(t))

\* ------------------------------------------- the lookup in the snapshot
\* getenv while checking is enabled, over every snapshot of up to
\* MaxEntries entries: the process after qb_tsafe_init(envp) and qb_tsafe_on()
LookupNames == {<<>>, <<"A">>, <<"A", "B">>, <<"B">>}
LookupEntries ==
    { Entry(n, v) : n \in {<<>>, <<"A">>, <<"A", "B">>},
                    v \in {<<"x">>, <<"y", "=", "z">>} }
LookupSnapshots == UNION { [1..n -> LookupEntries] : n \in 0..MaxEntries }

LookupInit ==
    /\ status = "running"
    /\ alive = {MainThread}
    /\ tsafe_disabled = 0
    /\ tsafe_inited = 1
    /\ coro_environ \in LookupSnapshots
    /\ captured = coro_environ
    /\ environ = coro_environ
    /\ tsafe_enabled_mutex = NoThread
    /\ atfork = TRUE
    /\ real = [s \in Symbols |-> NULL]
    /\ loaded = Symbols
    /\ last_toggle = "on"
    /\ pc = [t \in Threads |-> "idle"]
    /\ call = [t \in Threads |-> NoCall]
    /\ seen = [t \in Threads |-> NotSeen]
    /\ inv = [t \in Threads |-> <<>>]
    /\ nres = [t \in Threads |-> 0]
    /\ ret = [t \in Threads |-> NoRet]
    /\ nops = 0

LookupNext ==
    \E t \in Threads :
        \/ \E name \in LookupNames : getenv(t, <<name>>)
        \/ getenv_scan(t)
        \/ Return(t)

LookupSpec == LookupInit /\ [][LookupNext]_vars

TypeOK ==
    /\ tsafe_disabled \in {0, 1}
    /\ tsafe_inited \in {0, 1}
    /\ tsafe_enabled_mutex \in Threads \cup {NoThread, Gone}
    /\ nops \in 0..MaxOps

\* ---------------------------------------------------------------- claims
Wrapped == AbortFns \cup {"getenv", "pthread_create"}
Toggles == {"qb_tsafe_on", "qb_tsafe_off"}
Target(fn) == IF fn = "qb_tsafe_off" THEN 1 ELSE 0

\* thread t takes the step from location a to location b
Moves(t, a, b) == Running /\ t \in alive /\ pc[t] = a /\ pc'[t] = b

\* C1: a banned function (setenv, unsetenv, putenv, crypt, setgrent, strtok)
\* whose gate test found the gate disabled or the layer uninitialized never
\* aborts, calls the real function exactly once with the arguments of its
\* caller, and returns what the real function returned.
C1_ForwardedUnchanged ==
    \A t \in Threads :
        (call[t].fn \in AbortFns /\ seen[t] = "forward") =>
            /\ pc[t] # "aborted"
            /\ Len(inv[t]) <= 1
            /\ pc[t] = "ret" =>
                  /\ inv[t] = << <<call[t].fn, call[t].args>> >>
                  /\ ret[t] = libc_result(call[t].fn, call[t].args, environ, alive)

\* C2: a banned function entered while checking is enabled (initialized,
\* flag clear) aborts the process in that call, without having resolved or
\* called the real function: no pointer is set and the environment is as it was.
C2_RefusedBeforeReal ==
    [][\A t \in Threads :
          (Idle(t) /\ call'[t].fn \in AbortFns /\ Enabled) =>
              /\ status' = "aborted"
              /\ pc'[t] = "aborted"
              /\ inv'[t] = <<>>
              /\ nres'[t] = 0
              /\ real' = real
              /\ environ' = environ]_vars

C2_Witness ==
    \E t \in Threads :
        /\ status = "aborted"
        /\ pc[t] = "aborted"
        /\ call[t].fn \in AbortFns
        /\ seen[t] = "refuse"

\* C3: once initialized, pthread_create leaves its gate section (the test,
\* and the qb_tsafe_on it calls) with the gate enabled, and an enabled gate
\* stays enabled through every step of every call, further pthread_create
\* and wrapper calls included, except the write of qb_tsafe_off (and the
\* child handler of fork, which runs in another process).
C3_SpawnEnablesAndStays ==
    [][/\ \A t \in Threads :
             (Running /\ t \in alive /\ tsafe_inited = 1
                /\ call'[t].fn = "pthread_create"
                /\ pc[t] \in {"idle", "on_unlock"} /\ pc'[t] = "test")
             => tsafe_disabled' = 0
       /\ (Enabled /\ \A t \in Threads :
                          /\ ~Moves(t, "off_write", "off_unlock")
                          /\ ~Moves(t, "child", "ret"))
             => Enabled']_vars

C3_Witness ==
    \E t \in Threads :
        /\ call[t].fn = "pthread_create"
        /\ seen[t] = "turn_on"
        /\ pc[t] = "ret"
        /\ Enabled
        /\ real["pthread_create"] # NULL

\* C4: with the handlers registered, the gate of the parent does not change
\* from the prepare handler to the end of the parent handler, and the child
\* leaves its child handler with the gate disabled, also when the gate was
\* enabled at the duplication.
C4_ForkGate ==
    [][\A t \in Threads :
          /\ (Running /\ t \in alive /\ call[t].fn = "fork" /\ Handlers(t)
                /\ pc[t] \in {"dup", "parent"} /\ pc'[t] # "child")
             => (tsafe_disabled' = tsafe_disabled /\ tsafe_inited' = tsafe_inited)
          /\ Moves(t, "child", "ret") => (tsafe_disabled' = 1 /\ ~Enabled')]_vars

C4_Witness ==
    \E t \in Threads :
        /\ call[t].fn = "fork"
        /\ Handlers(t)
        /\ pc[t] = "ret"
        /\ ret[t] = IntV("0")
        /\ seen[t] = "enabled"
        /\ tsafe_disabled = 1

\* C5: the snapshot stays the vector handed to qb_tsafe_init, and a getenv
\* answered while checking is enabled returns the value that vector had for
\* the name (NULL when it had none), whatever happened to the environment.
C5_SnapshotFrozen ==
    /\ tsafe_inited = 1 => coro_environ = captured
    /\ \A t \in Threads :
          (call[t].fn = "getenv" /\ seen[t] = "snapshot" /\ pc[t] = "ret") =>
              ret[t] = libc_getenv(captured, call[t].args[1])

C5_Witness ==
    \E t \in Threads :
        /\ call[t].fn = "getenv"
        /\ seen[t] = "snapshot"
        /\ pc[t] = "ret"
        /\ ret[t] # libc_getenv(environ, call[t].args[1])

\* C6: the flag is 0 or 1; qb_tsafe_init leaves the gate disabled; the gate
\* becomes enabled only by the write of qb_tsafe_on (called by the
\* application or by pthread_create) and becomes disabled only by the write
\* of qb_tsafe_off or by the child handler of fork.
C6_GateTransitions ==
    [][/\ tsafe_disabled' \in {0, 1}
       /\ (tsafe_inited = 0 /\ tsafe_inited' = 1) => ~Enabled'
       /\ (~Enabled /\ Enabled') =>
             \E t \in Threads :
                /\ Moves(t, "on_write", "on_unlock")
                /\ call[t].fn \in {"qb_tsafe_on", "pthread_create"}
       /\ (Enabled /\ ~Enabled') =>
             \E t \in Threads :
                \/ Moves(t, "off_write", "off_unlock")
                \/ Moves(t, "child", "ret")]_vars

C6_Witness ==
    \E t \in Threads :
        /\ call[t].fn = "qb_tsafe_off"
        /\ seen[t] = "changed"
        /\ pc[t] = "ret"
        /\ tsafe_inited = 1
        /\ ~Enabled

\* C7: no step of a qb_tsafe_on that finds the flag already 0, or of a
\* qb_tsafe_off that finds it already 1, changes anything of the process but
\* the lock, the call does not abort, and it returns with the lock free.
C7_ToggleIdempotent ==
    [][\A t \in Threads :
          (Running /\ t \in alive /\ t \in alive' /\ call[t].fn \in Toggles
             /\ pc'[t] # pc[t]) =>
              /\ tsafe_disabled = Target(call[t].fn) =>
                    UNCHANGED <<status, alive, tsafe_disabled, tsafe_inited,
                                coro_environ, atfork, real, environ, captured>>
              /\ pc'[t] # "aborted"
              /\ pc'[t] = "ret" => tsafe_enabled_mutex' = NoThread]_vars

C7_Witness ==
    \E t \in Threads :
        /\ call[t].fn = "qb_tsafe_on"
        /\ seen[t] = "same"
        /\ pc[t] = "ret"
        /\ tsafe_disabled = 0
        /\ tsafe_enabled_mutex = NoThread

\* C8: every step that reads or writes tsafe_disabled is taken by the
\* thread that holds the lock: the gate test of a wrapper and of
\* pthread_create, the writes of qb_tsafe_on and qb_tsafe_off, the child
\* handler, and the write of qb_tsafe_init.
C8_GateOnlyUnderLock ==
    [][/\ \A t \in Threads :
             (\/ Idle(t) /\ call'[t].fn \in Wrapped /\ tsafe_inited = 1
              \/ Moves(t, "on_write", "on_unlock")
              \/ Moves(t, "off_write", "off_unlock")
              \/ Moves(t, "child", "ret"))
             => tsafe_enabled_mutex = t
       /\ tsafe_inited' # tsafe_inited => tsafe_enabled_mutex # NoThread]_vars

\* C9: at most one thread is between taking and releasing the lock, that
\* thread is the holder, and whenever the lock is free the flag has the
\* value of the qb_tsafe_on or qb_tsafe_off that took the lock last.
InCritical(t) ==
    /\ t \in alive
    /\ \/ pc[t] \in {"on_write", "on_unlock", "off_write", "off_unlock", "parent", "child"}
       \/ pc[t] = "dup" /\ Handlers(t)

C9_TogglesSerialized ==
    /\ Cardinality({t \in Threads : InCritical(t)}) <= 1
    /\ \A t \in Threads : InCritical(t) => tsafe_enabled_mutex = t
    /\ (tsafe_enabled_mutex = NoThread /\ last_toggle # NoToggle)
          => tsafe_disabled = (IF last_toggle = "off" THEN 1 ELSE 0)

C9_Witness ==
    /\ Cardinality(alive) > 1
    /\ tsafe_enabled_mutex = NoThread
    /\ last_toggle = "off"
    /\ \E t \in Threads : call[t].fn = "qb_tsafe_on" /\ pc[t] = "ret"
    /\ \E t \in Threads : call[t].fn = "qb_tsafe_off" /\ pc[t] = "ret"

\* C10: pthread_create never aborts; it calls the real pthread_create once,
\* through the pointer it resolved, and returns its result; it calls it
\* only after its qb_tsafe_on, if any, has written the flag and released
\* the lock, and it leaves that qb_tsafe_on with the gate flag clear.
C10_SpawnNeverRefused ==
    [][\A t \in Threads :
          (Running /\ t \in alive /\ call'[t].fn = "pthread_create" /\ pc'[t] # pc[t]) =>
              /\ pc'[t] # "aborted"
              /\ pc'[t] \in {"on_lock", "on_write", "on_unlock", "test", "store", "call"}
                    => inv'[t] = <<>>
              /\ Moves(t, "on_unlock", "test")
                    => (tsafe_disabled' = 0 /\ tsafe_enabled_mutex' = NoThread)
              /\ pc'[t] = "ret" =>
                    /\ pc[t] \in {"test", "store"}
                    /\ tsafe_enabled_mutex # t
                    /\ inv'[t] = << <<"pthread_create", <<>>>> >>
                    /\ ret'[t] = libc_result("pthread_create", <<>>, environ, alive)]_vars

C10_Witness ==
    \E t \in Threads :
        /\ call[t].fn = "pthread_create"
        /\ seen[t] = "turn_on"
        /\ pc[t] = "ret"
        /\ inv[t] = << <<"pthread_create", <<>>>> >>
        /\ ret[t] = IntV("0")
        /\ tsafe_enabled_mutex = NoThread

\* C11: a pointer that holds an address keeps it, and a call whose cache test
\* finds the pointer set does not call the resolver: it calls the real
\* function through the cached pointer and writes no pointer.
C11_NoResolveAfterSuccess ==
    [][/\ \A s \in Symbols : real[s] # NULL => real'[s] = real[s]
       /\ \A t \in Threads :
             (At(t, "test") /\ t \in alive' /\ pc'[t] # pc[t]
                /\ real[call[t].fn] # NULL) =>
                 /\ nres'[t] = 0
                 /\ real' = real
                 /\ inv'[t] = << <<real[call[t].fn][2],
                                   Forwarded(call[t].fn, call[t].args)>> >>]_vars

C11_Witness ==
    \E t \in Threads :
        /\ call[t].fn \in Wrapped
        /\ pc[t] = "ret"
        /\ nres[t] = 0
        /\ Len(inv[t]) = 1
        /\ real[call[t].fn] = <<"libc", call[t].fn>>

\* C12: catgets returns NULL from every state it is called in, in one step
\* that resolves nothing, calls no real function, does not abort and
\* changes nothing of the process.
C12_CatgetsStub ==
    [][\A t \in Threads :
          (Idle(t) /\ call'[t].fn = "catgets") =>
              /\ pc'[t] = "ret"
              /\ ret'[t] = NULL
              /\ inv'[t] = <<>>
              /\ nres'[t] = 0
              /\ UNCHANGED procVars]_vars

C12_Witness ==
    \E t \in Threads :
        /\ call[t].fn = "catgets"
        /\ pc[t] = "ret"
        /\ ret[t] = NULL
        /\ Enabled
        /\ status = "running"

\* a resolution of s has failed in this process: a thread stored the NULL
\* that the resolver returned and has not yet called through it
FailedOnce(s) ==
    \E u \in alive : pc[u] = "call" /\ call[u].fn = s /\ nres[u] = 1 /\ real[s] = NULL

\* C13 as stated: a call whose cache test comes after a failed resolution of
\* its symbol does not go on to call the resolver again.
C13_FailureNotRetried ==
    [][\A t \in Threads :
          Moves(t, "test", "store") => ~FailedOnce(call[t].fn)]_vars

\* C13 amended: a failed resolution leaves the pointer NULL, which is also
\* the mark of an unresolved pointer; every call whose cache test finds NULL,
\* after a failed resolution too, calls the resolver once more, stores its
\* answer, and a call that stored NULL calls through it: the process
\* crashes without a real function having been called.
C13_FailureRetried ==
    [][\A t \in Threads :
          /\ (At(t, "test") /\ t \in alive' /\ pc'[t] # pc[t]
                /\ real[call[t].fn] = NULL) => pc'[t] = "store"
          /\ (At(t, "store") /\ t \in alive' /\ pc'[t] # pc[t]) =>
                /\ nres'[t] = nres[t] + 1
                /\ call[t].fn \notin loaded => (real'[call[t].fn] = NULL /\ pc'[t] = "call")
          /\ (At(t, "call") /\ t \in alive' /\ pc'[t] # pc[t]) =>
                (status' = "crashed" /\ inv'[t] = <<>>)]_vars

C13_Witness ==
    \E t, u \in Threads :
        /\ t # u
        /\ status = "crashed"
        /\ pc[t] = "crashed"
        /\ pc[u] = "call"
        /\ call[t].fn = call[u].fn
        /\ nres[t] = 1
        /\ nres[u] = 1
        /\ real[call[t].fn] = NULL

\* C14: no step calls the real function of a banned function while checking
\* is enabled, whatever the other threads did after the gate test of the
\* call.
C14_NoRealWhileEnabled ==
    [][\A t \in Threads :
          (Running /\ t \in alive /\ call[t].fn \in AbortFns
             /\ inv'[t] # inv[t] /\ inv'[t] # <<>>) => ~Enabled]_vars

\* thread t is between its prepare handler and the end of its parent or
\* child handler
ForkInterval(t) ==
    /\ t \in alive
    /\ call[t].fn = "fork"
    /\ Handlers(t)
    /\ pc[t] \in {"dup", "parent", "child"}

\* C15: while a thread is between its prepare handler and the end of its
\* parent or child handler it holds the lock, and no other thread takes a
\* step that reads the gate flag (the gate test of a wrapper or of
\* pthread_create) or writes it.
C15_ForkExcludesOthers ==
    [][\A t \in Threads :
          (Running /\ ForkInterval(t)) =>
              /\ tsafe_enabled_mutex = t
              /\ \A u \in Threads \ {t} :
                    /\ ~(Idle(u) /\ call'[u].fn \in Wrapped)
                    /\ ~Moves(u, "on_write", "on_unlock")
                    /\ ~Moves(u, "off_write", "off_unlock")
              /\ pc'[t] = pc[t] => tsafe_disabled' = tsafe_disabled]_vars

\* C16: the thread that takes the step calling a real function, from a
\* banned function, getenv or pthread_create, holds the lock neither before
\* nor after that step; a pthread_create that turned the gate on has
\* released the lock before its call.
C16_NoLockAcrossReal ==
    [][\A t \in Threads :
          (Running /\ t \in alive /\ inv'[t] # inv[t] /\ inv'[t] # <<>>) =>
              /\ tsafe_enabled_mutex # t
              /\ tsafe_enabled_mutex' # t]_vars

C16_Witness ==
    \E t \in Threads :
        /\ call[t].fn = "pthread_create"
        /\ seen[t] = "turn_on"
        /\ Len(inv[t]) = 1
        /\ last_toggle = "on"
        /\ tsafe_disabled = 0
        /\ tsafe_enabled_mutex # t

\* C17: a getenv whose gate test finds the gate disabled or the layer
\* uninitialized goes to the real getenv: it resolves at most once, calls the
\* real getenv once with its argument and returns what that finds in the
\* live environment; a getenv whose gate test finds checking enabled goes to
\* the scan: it calls no resolver and no real function, writes no pointer
\* and returns what the snapshot holds for the name.
C17_GetenvPolicy ==
    [][\A t \in Threads :
          /\ (Idle(t) /\ call'[t].fn = "getenv") =>
                IF tsafe_inited = 0 \/ tsafe_disabled = 1
                   THEN pc'[t] = "test" /\ seen'[t] = "forward"
                   ELSE pc'[t] = "scan" /\ seen'[t] = "snapshot"
          /\ (Running /\ t \in alive /\ t \in alive' /\ call[t].fn = "getenv"
                /\ pc'[t] # pc[t] /\ pc'[t] # "idle") =>
                /\ seen[t] = "forward" =>
                      /\ nres'[t] <= 1
                      /\ pc'[t] = "ret" =>
                            /\ inv'[t] = << <<"getenv", call[t].args>> >>
                            /\ ret'[t] = libc_getenv(environ, call[t].args[1])
                /\ seen[t] = "snapshot" =>
                      /\ pc'[t] = "ret"
                      /\ inv'[t] = <<>>
                      /\ nres'[t] = 0
                      /\ real' = real
                      /\ ret'[t] = libc_getenv(coro_environ, call[t].args[1])]_vars

C17_Witness ==
    \E t \in Threads :
        /\ call[t].fn = "getenv"
        /\ seen[t] = "snapshot"
        /\ pc[t] = "ret"
        /\ ret[t] # NULL
        /\ real["getenv"] = NULL
        /\ inv[t] = <<>>

\* entry e is name, then "=", then anything
Matches(e, name) ==
    \E k \in 1..Len(e) :
        /\ e[k] = "="
        /\ \A j \in 1..(k - 1) : e[j] # "="
        /\ Len(name) = k - 1
        /\ \A j \in 1..(k - 1) : e[j] = name[j]

\* the text after the first "=" of the first entry of env that is name=...
FirstMatch(env, name) ==
    IF \E i \in 1..Len(env) : Matches(env[i], name)
       THEN LET i == CHOOSE i \in 1..Len(env) :
                        /\ Matches(env[i], name)
                        /\ \A j \in 1..(i - 1) : ~Matches(env[j], name)
            IN  StrV([k \in 1..(Len(env[i]) - Len(name) - 1) |->
                        env[i][Len(name) + 1 + k]])
       ELSE NULL

\* C18: the getenv answered from the snapshot returns the text after the
\* first "=" of the first entry whose text before the first "=" is exactly
\* the name (an entry whose name only starts with the name, or is a proper
\* start of it, does not count), and NULL when the snapshot has no such
\* entry.
C18_SnapshotLookup ==
    \A t \in Threads :
        (call[t].fn = "getenv" /\ seen[t] = "snapshot" /\ pc[t] = "ret") =>
            ret[t] = FirstMatch(coro_environ, call[t].args[1])

C18_Witness ==
    \E t \in Threads :
        /\ call[t].fn = "getenv"
        /\ seen[t] = "snapshot"
        /\ pc[t] = "ret"
        /\ Len(coro_environ) = 3
        /\ ~Matches(coro_environ[1], call[t].args[1])
        /\ strncmp_eq(call[t].args[1], coro_environ[1], strlen(call[t].args[1]))
        /\ Matches(coro_environ[2], call[t].args[1])
        /\ Matches(coro_environ[3], call[t].args[1])
        /\ coro_environ[2] # coro_environ[3]
        /\ ret[t] = StrV(<<"y", "=", "z">>)

\* C19 as stated: without QB_BSD every setgrent that has aborted has called
\* the real setgrent first, whatever the gate was.
C19_RealThenAssert ==
    \A t \in Threads :
        (~QB_BSD /\ call[t].fn = "setgrent" /\ pc[t] = "aborted") =>
            inv[t] = << <<"setgrent", <<>>>> >>

\* C19 amended: without QB_BSD no setgrent returns: a call whose gate test
\* finds the gate disabled or the layer uninitialized calls the real
\* setgrent once and then aborts in assert(0); a call whose gate test finds
\* checking enabled aborts at once, without resolving or calling the real
\* setgrent.
C19_SetgrentAlwaysAborts ==
    [][\A t \in Threads :
          /\ (~QB_BSD /\ Idle(t) /\ call'[t].fn = "setgrent") =>
                IF tsafe_inited = 0 \/ tsafe_disabled = 1
                   THEN pc'[t] = "test" /\ status' = "running"
                   ELSE /\ pc'[t] = "aborted"
                        /\ status' = "aborted"
                        /\ inv'[t] = <<>>
                        /\ nres'[t] = 0
                        /\ real' = real
          /\ (~QB_BSD /\ Running /\ t \in alive /\ t \in alive'
                /\ call[t].fn = "setgrent" /\ pc'[t] # pc[t]) =>
                /\ pc'[t] \in {"store", "aborted"}
                /\ pc'[t] = "aborted" =>
                      /\ status' = "aborted"
                      /\ inv'[t] = << <<"setgrent", <<>>>> >>]_vars

C19_Witness ==
    \E t \in Threads :
        /\ call[t].fn = "setgrent"
        /\ pc[t] = "aborted"
        /\ status = "aborted"
        /\ seen[t] = "forward"
        /\ tsafe_inited = 1
        /\ tsafe_disabled = 1
        /\ inv[t] = << <<"setgrent", <<>>>> >>

\* C20 as stated: a pointer is written once at most: the step that stores
\* into it finds it NULL, also when several threads make the first call
\* together.
C20_WrittenOnce ==
    [][\A t \in Threads :
          (At(t, "store") /\ t \in alive' /\ pc'[t] # pc[t]) =>
              real[call[t].fn] = NULL]_vars

\* C20 amended: every thread whose cache test found NULL stores into the
\* pointer, so first calls made together store more than once; every store
\* puts there the address of the real function of that name in the next
\* library (NULL when there is none), no other step writes a pointer, and a
\* pointer that holds an address never changes.
C20_StoresAgree ==
    [][/\ \A s \in Symbols :
             /\ real[s] # NULL => real'[s] = real[s]
             /\ real'[s] # real[s] =>
                   /\ real'[s] = <<"libc", s>>
                   /\ \E t \in Threads : At(t, "store") /\ call[t].fn = s
       /\ \A t \in Threads :
             (At(t, "store") /\ t \in alive' /\ pc'[t] # pc[t]) =>
                 real'[call[t].fn] =
                    IF call[t].fn \in loaded THEN <<"libc", call[t].fn>> ELSE NULL]_vars

C20_Witness ==
    \E t, u \in Threads :
        /\ t # u
        /\ call[t].fn = call[u].fn
        /\ call[t].fn \in Wrapped
        /\ pc[t] = "ret"
        /\ pc[u] = "ret"
        /\ nres[t] = 1
        /\ nres[u] = 1
        /\ real[call[t].fn] = <<"libc", call[t].fn>>

\* C21: while tsafe_inited is 0, whatever qb_tsafe_on and qb_tsafe_off did to
\* the flag: the gate test of a banned function and of getenv goes to the
\* real function, no step of a call to a wrapper aborts the process,
\* pthread_create goes to its real function without calling qb_tsafe_on and
\* leaves the flag as it is, and the step of qb_tsafe_init leaves the flag 1.
C21_NoCheckingBeforeInit ==
    [][/\ \A t \in Threads :
             /\ (tsafe_inited = 0 /\ Idle(t)
                   /\ call'[t].fn \in AbortFns \cup {"getenv", "pthread_create"}) =>
                   /\ pc'[t] = "test"
                   /\ tsafe_disabled' = tsafe_disabled
             /\ (tsafe_inited = 0 /\ Running /\ t \in alive /\ pc'[t] # pc[t]
                   /\ call'[t].fn \in Wrapped \cup {"catgets"}) =>
                   status' # "aborted"
       /\ (tsafe_inited = 0 /\ tsafe_inited' = 1) =>
             (tsafe_disabled' = 1 /\ ~Enabled')]_vars

\* thread t is inside one of the operations that take the lock
LockOps == {"qb_tsafe_on", "qb_tsafe_off", "pthread_create", "fork"}
InLockOp(t) ==
    /\ t \in alive
    /\ call[t].fn \in LockOps
    /\ pc[t] \notin {"idle", "ret"}

\* C22: the lock is free whenever no thread of the process is inside
\* qb_tsafe_on, qb_tsafe_off, pthread_create or fork; the lock changes hands
\* only by a thread taking the free lock or the holder releasing it; and,
\* the threads being scheduled fairly, every such operation in progress gets
\* to its return (unless the process ends first).
C22_LockNeverDeadlocks ==
    /\ []((Running /\ \A t \in Threads : ~InLockOp(t))
            => tsafe_enabled_mutex = NoThread)
    /\ [][tsafe_enabled_mutex' # tsafe_enabled_mutex =>
             \E t \in Threads :
                /\ pc'[t] # pc[t]
                /\ \/ tsafe_enabled_mutex = NoThread /\ tsafe_enabled_mutex' = t
                   \/ tsafe_enabled_mutex = t /\ tsafe_enabled_mutex' = NoThread]_vars
    /\ \A t \in Threads :
          (Running /\ InLockOp(t)) ~> (~Running \/ ~InLockOp(t))

====
